---- MODULE Spec2Model ----
(***************************************************************************)
(* A model of the bitstream class (invokr/bitstream): a cursor that reads  *)
(* and writes values of 0..32 bits in an array of 32-bit words.            *)
(*                                                                         *)
(* A word (uint32_t) and every other bit pattern is the set of the         *)
(* positions of its 1 bits: & is \cap, | is \cup, a shift moves the        *)
(* positions and drops those that leave the type.  Cursor fields that the  *)
(* code only does arithmetic on (mPos, mBufferBits, mBufferBytes) are      *)
(* numbers; where the code lets them wrap (size * 8) the model wraps them. *)
(***************************************************************************)
EXTENDS Integers, Sequences, FiniteSets, TLC

VARIABLES
    bs,        \* bs[c]: the fields of bitstream object c
    mem,       \* mem[a]: the words of the caller's array a
    heap,      \* heap[h]: the arrays obtained with new word_t[n]
    charSigned,\* whether plain char is signed on this build
    halted,    \* an assert() has failed: the program was aborted
    ub,        \* an access outside an array has happened
    last,      \* the last call: its name, object, arguments, result, state before
    pc,        \* the caller's position in its sequence of calls
    plan,      \* what the caller decided to transfer (values, bytes)
    log,       \* the writes the caller has made, in order
    got        \* the values the caller has read back, in order

vars == <<bs, mem, heap, charSigned, halted, ub, last, pc, plan, log, got>>

----------------------------------------------------------------------------
(* Bounds of the model *)

\* Words in each array the caller owns.
ArrWords == 3
\* The size the caller passes when it binds an array: its first BindSize bytes.
BindSize == 8
\* Longest sequence of consecutive writes in the packing scenario.
MaxSeq == 3
\* Longest payload of write_bytes / read_bytes.
MaxBytes == 2

----------------------------------------------------------------------------
(* Bit patterns *)

\* sizeof(word_t) << 3, word_t = uint32_t
bitSize == 32

Bits32 == 0 .. 31
Bits64 == 0 .. 63

\* Pre-computed bitmasks: masks[n] has the low n bits set (uint64_t, n in 0..63).
masks(n) == { b \in Bits64 : b < n }

\* x << s and x >> s on a uint32_t, 0 <= s < 32
Shl32(x, s) == { b + s : b \in x } \cap Bits32
Shr32(x, s) == { b - s : b \in { c \in x : c >= s } }

\* Conversion of a wider value to uint32_t (the assignment to a word, to ret)
Trunc32(x) == x \cap Bits32

\* A number as a bit pattern and back (numbers below 2^31)
RECURSIVE NatToBitsFrom(_, _)
NatToBitsFrom(n, b) ==
    IF n = 0 THEN {}
    ELSE (IF n % 2 = 1 THEN {b} ELSE {}) \cup NatToBitsFrom(n \div 2, b + 1)
NatToBits(n) == NatToBitsFrom(n, 0)

RECURSIVE BitsToNat(_)
BitsToNat(x) ==
    IF x = {} THEN 0
    ELSE LET b == CHOOSE c \in x : TRUE IN 2^b + BitsToNat(x \ {b})

\* The C operator ^ (exclusive or) on two numbers
Xor(a, b) ==
    BitsToNat((NatToBits(a) \ NatToBits(b)) \cup (NatToBits(b) \ NatToBits(a)))

\* (size * 8) in uint32_t arithmetic: the product modulo 2^32.  The three top
\* bits of size are shifted out, which is what the remainder by 2^29 drops.
Mul8U32(size) == (size % (2^29)) * 8

----------------------------------------------------------------------------
(* The object *)

Cursors == {"c1", "c2"}
Arrays  == {"a", "b"}
\* The arrays the objects may obtain with new word_t[n] in one run
HeapSeq == <<"h1", "h2">>
HeapIds == { HeapSeq[i] : i \in DOMAIN HeapSeq }

\* bitstream::bitstream()
bitstream_empty ==
    [mError |-> "none", mMode |-> "io_unset", mBuffer |-> "null",
     mBufferBytes |-> 0, mBufferBits |-> 0, mPos |-> 0, mOwnsBuffer |-> FALSE]

\* static size_t size_bits_max = (2^32) - 1;   ^ is exclusive or in C++
size_bits_max == Xor(2, 32) - 1

\* bool verify_size(uint32_t size), second header of part_000
verify_size(size) == Mul8U32(size) + 1 > size_bits_max

\* bool verify_size(uint32_t size), first header of part_000
verify_size_first(size) == Mul8U32(size) + 1 < size_bits_max

\* bitstream::bitstream(word_t* buffer, size_t size, mode m)
bitstream_buffer(buffer, size, m) ==
    IF ~verify_size(size)
    THEN [mError |-> "size", mMode |-> m, mBuffer |-> "null",
          mBufferBytes |-> 0, mBufferBits |-> 0, mPos |-> 0, mOwnsBuffer |-> FALSE]
    ELSE [mError |-> "none", mMode |-> m, mBuffer |-> buffer,
          mBufferBytes |-> size, mBufferBits |-> Mul8U32(size), mPos |-> 0,
          mOwnsBuffer |-> FALSE]

\* bitstream(word_t* buffer, size_t size, mode m), first header of part_000
bitstream_buffer_first(buffer, size, m) ==
    IF ~verify_size_first(size)
    THEN [mError |-> "size", mMode |-> m, mBuffer |-> "null",
          mBufferBytes |-> 0, mBufferBits |-> 0, mPos |-> 0, mOwnsBuffer |-> FALSE]
    ELSE [mError |-> "none", mMode |-> m, mBuffer |-> buffer,
          mBufferBytes |-> size, mBufferBits |-> Mul8U32(size), mPos |-> 0,
          mOwnsBuffer |-> FALSE]

\* bitstream::bitstream(const std::string& data): the words allocated
StringWords(n) == (n + 3) \div 4 + 1

\* bitstream::bitstream(const std::string& data), data.size() = n; h is the
\* array new word_t[mBufferBytes] returns.
bitstream_string(n, h) ==
    IF ~verify_size(n)
    THEN [mError |-> "size", mMode |-> "io_reader", mBuffer |-> "null",
          mBufferBytes |-> 0, mBufferBits |-> 0, mPos |-> 0, mOwnsBuffer |-> TRUE]
    ELSE [mError |-> "none", mMode |-> "io_reader", mBuffer |-> h,
          mBufferBytes |-> StringWords(n), mBufferBits |-> Mul8U32(StringWords(n)),
          mPos |-> 0, mOwnsBuffer |-> TRUE]

\* bitstream::bitstream(const uint32_t size); h is the array new word_t[size]
\* returns.
bitstream_size(size, h) ==
    [mError |-> IF ~verify_size(size) THEN "size" ELSE "none",
     mMode |-> "io_writer", mBuffer |-> h, mBufferBytes |-> size,
     mBufferBits |-> Mul8U32(size), mPos |-> 0, mOwnsBuffer |-> TRUE]

\* set_mode as in the first header of part_000: the test is inverted and the
\* mode assigned is io_unset.
set_mode_inverted(s, io_mode) ==
    IF s.mMode = "io_unset"
    THEN [s EXCEPT !.mError = "redef"]
    ELSE [s EXCEPT !.mMode = "io_unset"]

\* void set_mode(mode io_mode)
set_mode_call(s, io_mode) ==
    IF s.mMode # "io_unset"
    THEN [s EXCEPT !.mError = "redef"]
    ELSE [s EXCEPT !.mMode = io_mode]

\* void set_buffer(word_t* buffer, uint32_t size)
set_buffer_call(s, buffer, size) ==
    IF s.mBuffer # "null"
    THEN [s EXCEPT !.mError = "redef"]
    ELSE [s EXCEPT !.mBuffer = buffer, !.mBufferBytes = size,
                   !.mBufferBits = Mul8U32(size), !.mPos = 0]

\* bool valid()
valid(s) == s.mError = "none" /\ s.mMode # "io_unset"

\* The words of the array an object points to
Storage(s) == IF s.mBuffer \in Arrays THEN mem[s.mBuffer] ELSE << >>

----------------------------------------------------------------------------
(* write and read: the packing arithmetic *)

\* const uint32_t end = (mPos + bits - 1) / bitSize, in uint32_t arithmetic:
\* 0 + 0 - 1 wraps to 2^32 - 1.
LastChunk(pos, bits) ==
    IF pos + bits = 0 THEN (2^27) - 1 ELSE (pos + bits - 1) \div bitSize

\* The accesses of write that fall outside the array or the mask table, and
\* the shift by the full width of the type.
WriteOutside(m, pos, bits) ==
    LET start == pos \div bitSize
        end   == LastChunk(pos, bits)
        shift == pos % bitSize
    IN  \/ start \notin DOMAIN m
        \/ /\ start # end
           /\ \/ end \notin DOMAIN m
              \/ bitSize - shift >= 32
              \/ bits - (bitSize - shift) \notin Bits64

\* write() with the second word filled by a shift to the left
WriteWordsShiftLeft(m, pos, bits, data) ==
    LET start == pos \div bitSize
        end   == LastChunk(pos, bits)
        shift == pos % bitSize
        first == Trunc32((m[start] \cap masks(shift)) \cup Shl32(data, shift))
    IN  IF start = end
        THEN [m EXCEPT ![start] = first]
        ELSE [m EXCEPT ![start] = first,
                       ![end] = Shl32(data, bitSize - shift)]

\* The body of write(): the words after the call.
WriteWords(m, pos, bits, data) ==
    LET start == pos \div bitSize
        end   == LastChunk(pos, bits)
        shift == pos % bitSize
        first == Trunc32((m[start] \cap masks(shift)) \cup Shl32(data, shift))
    IN  IF start = end
        THEN [m EXCEPT ![start] = first]
        ELSE [m EXCEPT ![start] = first,
                       ![end] = Trunc32(Shr32(data, bitSize - shift)
                                         \cap masks(bits - (bitSize - shift)))]

\* The body of write() in the revision of part_001.
WriteWords_001(m, pos, bits, data) ==
    LET start == pos \div bitSize
        end   == LastChunk(pos, bits)
        shift == pos % bitSize
    IN  IF start = end
        THEN [m EXCEPT ![start] =
                 Trunc32((m[start] \cap masks(shift)) \cup Shl32(data, shift))]
        ELSE [m EXCEPT ![start] =
                 Trunc32((m[start] \cap masks(shift))
                         \cup Shl32(data \cap masks(bitSize - shift), shift)),
                       ![end] = Shl32(data, bitSize - shift)]

ReadOutside(m, pos, bits) ==
    LET start == pos \div bitSize
        end   == LastChunk(pos, bits)
        shift == pos % bitSize
    IN  \/ start \notin DOMAIN m
        \/ bits \notin Bits64
        \/ /\ start # end
           /\ \/ end \notin DOMAIN m
              \/ bitSize - shift >= 32

\* read() that never looks at the second word
ReadValueOneWord(m, pos, bits) ==
    LET start == pos \div bitSize
        shift == pos % bitSize
    IN  Trunc32(Shr32(m[start], shift) \cap masks(bits))

\* The body of read(): the value returned.
ReadValue(m, pos, bits) ==
    LET start == pos \div bitSize
        end   == LastChunk(pos, bits)
        shift == pos % bitSize
    IN  IF start = end
        THEN Trunc32(Shr32(m[start], shift) \cap masks(bits))
        ELSE Trunc32((Shr32(m[start], shift) \cup Shl32(m[end], bitSize - shift))
                     \cap masks(bits))

----------------------------------------------------------------------------
(* Calls.  A call works on st = [s, m, halted, ub, ret]: the object's       *)
(* fields, the words of its array, and what the call did to the program.    *)

Running(s, m) == [s |-> s, m |-> m, halted |-> FALSE, ub |-> FALSE, ret |-> {}]

\* void seek(uint32_t position)
seek_call(st, position) ==
    IF ~(position < st.s.mBufferBits)
    THEN [st EXCEPT !.halted = TRUE]
    ELSE [st EXCEPT !.s.mPos = position]

\* void write(uint8_t bits, uint32_t data)
write_call(st, bits, data) ==
    IF st.halted \/ st.ub THEN st
    ELSE IF ~(st.s.mError = "none" /\ st.s.mMode = "io_writer" /\ bits <= 32)
    THEN [st EXCEPT !.halted = TRUE]
    ELSE IF WriteOutside(st.m, st.s.mPos, bits)
    THEN [st EXCEPT !.ub = TRUE]
    ELSE [st EXCEPT !.m = WriteWords(st.m, st.s.mPos, bits, data),
                    !.s.mPos = st.s.mPos + bits]

\* uint32_t read(uint8_t bits)
read_call(st, bits) ==
    IF st.halted \/ st.ub THEN st
    ELSE IF ~(st.s.mError = "none" /\ st.s.mMode = "io_reader" /\ bits <= 32)
    THEN [st EXCEPT !.halted = TRUE]
    ELSE IF ReadOutside(st.m, st.s.mPos, bits)
    THEN [st EXCEPT !.ub = TRUE]
    ELSE [st EXCEPT !.ret = ReadValue(st.m, st.s.mPos, bits),
                    !.s.mPos = st.s.mPos + bits]

\* void write(uint8_t bits, uint32_t data), revision of part_001
write_call_001(st, bits, data) ==
    IF st.halted \/ st.ub THEN st
    ELSE IF ~(st.s.mError = "none" /\ st.s.mMode = "io_writer" /\ bits <= 32)
    THEN [st EXCEPT !.halted = TRUE]
    ELSE IF WriteOutside(st.m, st.s.mPos, bits)
    THEN [st EXCEPT !.ub = TRUE]
    ELSE [st EXCEPT !.m = WriteWords_001(st.m, st.s.mPos, bits, data),
                    !.s.mPos = st.s.mPos + bits]

\* A char passed where a uint32_t is expected: a signed char with its top bit
\* set is sign-extended.
CharToU32(byte) ==
    IF charSigned /\ 7 \in byte THEN byte \cup (8 .. 31) ELSE byte

\* Byte k of the words seen as char[] (reinterpret_cast<char*>(mBuffer)[k]),
\* on a little-endian machine: byte k is bits 8 * (k % 4) .. + 7 of word k / 4.
GetByte(m, k) == { j \in 0 .. 7 : (8 * (k % 4) + j) \in m[k \div 4] }
SetByte(m, k, byte) ==
    [m EXCEPT ![k \div 4] = (@ \ { 8 * (k % 4) + j : j \in 0 .. 7 })
                            \cup { 8 * (k % 4) + j : j \in byte }]

\* memcpy(&bytes(m)[at], data, size)
RECURSIVE MemcpyIn(_, _, _, _)
MemcpyIn(m, at, data, size) ==
    IF size = 0 THEN m
    ELSE SetByte(MemcpyIn(m, at, data, size - 1), at + size - 1, data[size])

\* memcpy(dest, &bytes(m)[at], size)
MemcpyOut(m, at, size) == [i \in 1 .. size |-> GetByte(m, at + i - 1)]

\* memcpy over bytes that are not all in the array
CopyOutside(m, at, size) ==
    size > 0 /\ \E k \in at .. at + size - 1 : (k \div 4) \notin DOMAIN m

\* for (uint32_t i = 0; i < size; ++i) write(8, data[i]);
RECURSIVE WriteLoop(_, _, _, _)
WriteLoop(st, data, i, size) ==
    IF i > size THEN st
    ELSE WriteLoop(write_call(st, 8, CharToU32(data[i])), data, i + 1, size)

\* void write_bytes(const char* data, uint32_t size)
write_bytes_call(st, data, size) ==
    IF st.s.mPos % 8 = 0
    THEN IF CopyOutside(st.m, st.s.mPos \div 8, size)
         THEN [st EXCEPT !.ub = TRUE]
         ELSE [st EXCEPT !.m = MemcpyIn(st.m, st.s.mPos \div 8, data, size)]
    ELSE WriteLoop(st, data, 1, size)

\* for (uint32_t i = 0; i < bytes; ++i) dest[i] = static_cast<int8_t>(read(8));
\* st.ret collects dest.
RECURSIVE ReadLoop(_, _, _)
ReadLoop(st, i, bytes) ==
    IF i > bytes THEN st
    ELSE LET r == read_call([st EXCEPT !.ret = {}], 8)
         IN  ReadLoop([r EXCEPT !.ret = IF r.halted \/ r.ub THEN st.ret
                                        ELSE Append(st.ret, r.ret \cap (0 .. 7))],
                      i + 1, bytes)

\* void read_bytes(uint32_t bytes, char* dest)
read_bytes_call(st, bytes) ==
    IF st.s.mPos % 8 = 0
    THEN IF CopyOutside(st.m, st.s.mPos \div 8, bytes)
         THEN [st EXCEPT !.ub = TRUE]
         ELSE [st EXCEPT !.ret = MemcpyOut(st.m, st.s.mPos \div 8, bytes)]
    ELSE ReadLoop([st EXCEPT !.ret = << >>], 1, bytes)

\* What a call leaves in the program's state.  The contents of the arrays an
\* object allocated are not modelled: calls that touch the words are made on
\* objects over the caller's arrays (or over no array at all).
Commit(c, st) ==
    /\ bs' = [bs EXCEPT ![c] = st.s]
    /\ mem' = IF bs[c].mBuffer \in Arrays
              THEN [mem EXCEPT ![bs[c].mBuffer] = st.m] ELSE mem
    /\ halted' = st.halted
    /\ ub' = st.ub

Call(op, c, bits, data, ret) ==
    [op |-> op, c |-> c, pre |-> bs[c], mem0 |-> mem,
     bits |-> bits, data |-> data, ret |-> ret, name |-> ""]

\* A call whose arguments are a size and a mode or an array
CallNamed(op, c, size, name) ==
    [Call(op, c, size, {}, {}) EXCEPT !.name = name]

NoCall ==
    [op |-> "none", c |-> "c1", pre |-> bitstream_empty,
     mem0 |-> [a \in Arrays |-> [i \in 0 .. ArrWords - 1 |-> {}]],
     bits |-> 0, data |-> {}, ret |-> {}, name |-> ""]

seek(c, position) ==
    /\ ~halted /\ ~ub
    /\ Commit(c, seek_call(Running(bs[c], Storage(bs[c])), position))
    /\ last' = Call("seek", c, 0, position, {})
    /\ UNCHANGED <<heap, charSigned>>

write(c, bits, data) ==
    /\ ~halted /\ ~ub
    /\ bs[c].mBuffer \notin HeapIds
    /\ Commit(c, write_call(Running(bs[c], Storage(bs[c])), bits, data))
    /\ last' = Call("write", c, bits, data, {})
    /\ UNCHANGED <<heap, charSigned>>

read(c, bits) ==
    /\ ~halted /\ ~ub
    /\ bs[c].mBuffer \notin HeapIds
    /\ LET st == read_call(Running(bs[c], Storage(bs[c])), bits)
       IN  /\ Commit(c, st)
           /\ last' = Call("read", c, bits, {}, st.ret)
    /\ UNCHANGED <<heap, charSigned>>

write_001(c, bits, data) ==
    /\ ~halted /\ ~ub
    /\ bs[c].mBuffer \notin HeapIds
    /\ Commit(c, write_call_001(Running(bs[c], Storage(bs[c])), bits, data))
    /\ last' = Call("write", c, bits, data, {})
    /\ UNCHANGED <<heap, charSigned>>

write_bytes(c, data, size) ==
    /\ ~halted /\ ~ub
    /\ bs[c].mBuffer \notin HeapIds
    /\ Commit(c, write_bytes_call(Running(bs[c], Storage(bs[c])), data, size))
    /\ last' = Call("write_bytes", c, size, data, {})
    /\ UNCHANGED <<heap, charSigned>>

read_bytes(c, bytes) ==
    /\ ~halted /\ ~ub
    /\ bs[c].mBuffer \notin HeapIds
    /\ LET st == read_bytes_call(Running(bs[c], Storage(bs[c])), bytes)
       IN  /\ Commit(c, st)
           /\ last' = Call("read_bytes", c, bytes, {}, st.ret)
    /\ UNCHANGED <<heap, charSigned>>

----------------------------------------------------------------------------
(* Inputs *)

Widths == 1 .. 32

\* 0xAAAAAAAA
Alt32 == { b \in Bits32 : b % 2 = 1 }

\* Values to write with n bits: values below 2^n, and 32-bit values with bits
\* at or above bit n.
Narrow(n) == { masks(n), {n - 1}, {0}, Alt32 \cap masks(n), {} }
Data(n) == Narrow(n) \cup { Bits32, Alt32 }

\* Contents of an array before the calls
Fills == { [i \in 0 .. ArrWords - 1 |-> x] : x \in { {}, Bits32, Alt32 } }

NoHeap ==
    [h \in HeapIds \cup Arrays |->
        IF h \in Arrays THEN [words |-> ArrWords, live |-> TRUE, frees |-> 0]
        ELSE [words |-> 0, live |-> FALSE, frees |-> 0]]

----------------------------------------------------------------------------
(* Round trip: a Writer and a Reader over the same array.  The Writer seeks *)
(* to a position and writes one value; the Reader seeks there and reads it. *)

InitRT ==
    /\ bs = [c \in Cursors |-> bitstream_buffer("a", BindSize,
                                 IF c = "c1" THEN "io_writer" ELSE "io_reader")]
    /\ \E f \in Fills : mem = [a \in Arrays |-> f]
    /\ heap = NoHeap
    /\ charSigned = TRUE
    /\ halted = FALSE
    /\ ub = FALSE
    /\ last = NoCall
    /\ pc = "start"
    /\ plan = << >>
    /\ log = << >>
    /\ got = << >>

WriterSeek ==
    /\ pc = "start"
    /\ \E p \in 0 .. bs["c1"].mBufferBits : seek("c1", p)
    /\ pc' = "wseek"
    /\ UNCHANGED <<plan, log, got>>

WriterWrite ==
    /\ pc = "wseek"
    /\ \E n \in Widths : \E v \in Data(n) :
          /\ write("c1", n, v)
          /\ log' = <<[pos |-> bs["c1"].mPos, bits |-> n, data |-> v]>>
    /\ pc' = "written"
    /\ UNCHANGED <<plan, got>>

ReaderSeek ==
    /\ pc = "written"
    /\ seek("c2", log[1].pos)
    /\ pc' = "rseek"
    /\ UNCHANGED <<plan, log, got>>

ReaderRead ==
    /\ pc = "rseek"
    /\ read("c2", log[1].bits)
    /\ got' = <<last'.ret>>
    /\ pc' = "done"
    /\ UNCHANGED <<plan, log>>

NextRT == WriterSeek \/ WriterWrite \/ ReaderSeek \/ ReaderRead

Spec == InitRT /\ [][NextRT]_vars

\* C1: a value below 2^n written with n bits at position p, p + n within the
\* capacity, is what read(n) at p returns, and both cursors end at p + n.
RoundTrip ==
    (pc = "done" /\ ~halted /\ ~ub
        /\ log[1].data \subseteq masks(log[1].bits)
        /\ log[1].pos + log[1].bits <= bs["c1"].mBufferBits)
    => /\ got[1] = log[1].data
       /\ bs["c1"].mPos = log[1].pos + log[1].bits
       /\ bs["c2"].mPos = log[1].pos + log[1].bits

\* A round trip that crosses from one word into the next
RoundTripReached ==
    /\ pc = "done" /\ ~halted /\ ~ub
    /\ log[1].data = masks(log[1].bits)
    /\ log[1].bits = 20
    /\ log[1].pos = 25
    /\ got[1] = log[1].data

\* Bit q of an array of words
BitAt(m, q) == (q % bitSize) \in m[q \div bitSize]
BitPositions == 0 .. ArrWords * bitSize - 1

\* C4: write(n, v) at p, p + n within the capacity, leaves every bit outside
\* [p, p + n) as it was.
WriteOccupiesExactlyNBits ==
    (last.op = "write" /\ ~halted /\ ~ub
        /\ last.pre.mPos + last.bits <= last.pre.mBufferBits)
    => \A q \in BitPositions :
          (q < last.pre.mPos \/ q >= last.pre.mPos + last.bits)
          => (BitAt(mem[last.pre.mBuffer], q) <=> BitAt(last.mem0[last.pre.mBuffer], q))

\* C7: the cursor never passes the capacity, and a call that would take it
\* past the capacity changes neither the object nor the words.
CursorWithinCapacity ==
    /\ \A c \in Cursors : bs[c].mPos <= bs[c].mBufferBits
    /\ (last.op \in {"write", "read"}
          /\ last.pre.mPos + last.bits > last.pre.mBufferBits)
       => (bs[last.c] = last.pre /\ mem = last.mem0)

----------------------------------------------------------------------------
(* Sequential packing: the Writer writes up to MaxSeq values from position  *)
(* 0, the Reader reads them back from position 0 with the same widths.      *)

SeqWidths == {1, 3, 5, 7, 20, 32}
SeqData(n) == { masks(n), {n - 1}, Alt32 \cap masks(n) }

InitSeq ==
    /\ bs = [c \in Cursors |-> bitstream_buffer("a", BindSize,
                                 IF c = "c1" THEN "io_writer" ELSE "io_reader")]
    /\ \E f \in Fills : mem = [a \in Arrays |-> f]
    /\ heap = NoHeap
    /\ charSigned = TRUE
    /\ halted = FALSE
    /\ ub = FALSE
    /\ last = NoCall
    /\ pc = "packing"
    /\ plan = << >>
    /\ log = << >>
    /\ got = << >>

PackWrite ==
    /\ pc = "packing"
    /\ Len(log) < MaxSeq
    /\ \E n \in SeqWidths : \E v \in SeqData(n) :
          /\ bs["c1"].mPos + n <= bs["c1"].mBufferBits
          /\ write("c1", n, v)
          /\ log' = Append(log, [pos |-> bs["c1"].mPos, bits |-> n, data |-> v])
    /\ UNCHANGED <<pc, plan, got>>

UnpackRead ==
    /\ Len(got) < Len(log)
    /\ read("c2", log[Len(got) + 1].bits)
    /\ got' = Append(got, last'.ret)
    /\ pc' = "unpacking"
    /\ UNCHANGED <<plan, log>>

NextSeq == PackWrite \/ UnpackRead

SpecSeq == InitSeq /\ [][NextSeq]_vars

\* C2: the values read back are the values written, in order.
SequentialPacking ==
    (~halted /\ ~ub) => \A i \in 1 .. Len(got) : got[i] = log[i].data

\* Three values packed across a word boundary and all read back
SequentialPackingReached ==
    /\ Len(log) = 3 /\ Len(got) = 3
    /\ log[1].bits = 7 /\ log[2].bits = 20 /\ log[3].bits = 32
    /\ \A i \in 1 .. 3 : log[i].data = masks(log[i].bits) /\ got[i] = log[i].data
    /\ bs["c2"].mPos = 59

----------------------------------------------------------------------------
(* Bulk transfer.  Either c1 is a Writer over array a that seeks and calls  *)
(* write_bytes while c2, a Writer over array b with the same contents,      *)
(* seeks to the same position and writes the same bytes with write(8, .);   *)
(* or c1 is a Reader over array a that seeks and calls read_bytes.          *)

\* 0x00, 0xff, 0x81, 0x01
ByteVals == { {}, 0 .. 7, {0, 7}, {0} }
Payloads == UNION { [1 .. n -> ByteVals] : n \in 1 .. MaxBytes }

InitBytes ==
    /\ \E f \in Fills : mem = [a \in Arrays |-> f]
    /\ pc \in {"wstart", "rstart"}
    /\ bs = [c \in Cursors |->
               IF c = "c1"
               THEN bitstream_buffer("a", BindSize,
                       IF pc = "wstart" THEN "io_writer" ELSE "io_reader")
               ELSE bitstream_buffer("b", BindSize, "io_writer")]
    /\ heap = NoHeap
    /\ charSigned \in BOOLEAN
    /\ halted = FALSE
    /\ ub = FALSE
    /\ last = NoCall
    /\ plan \in Payloads
    /\ log = << >>
    /\ got = << >>

BulkSeek ==
    /\ pc \in {"wstart", "rstart"}
    /\ \E p \in 0 .. bs["c1"].mBufferBits - 1 : seek("c1", p)
    /\ pc' = IF pc = "wstart" THEN "wseek" ELSE "rseek"
    /\ UNCHANGED <<plan, log, got>>

BulkWrite ==
    /\ pc = "wseek"
    /\ write_bytes("c1", plan, Len(plan))
    /\ log' = <<[pos |-> bs["c1"].mPos, bits |-> 8 * Len(plan), data |-> plan]>>
    /\ pc' = "bulk"
    /\ UNCHANGED <<plan, got>>

RefSeek ==
    /\ pc = "bulk"
    /\ seek("c2", log[1].pos)
    /\ pc' = "ref"
    /\ UNCHANGED <<plan, log, got>>

RefWrite ==
    /\ pc = "ref"
    /\ Len(log) <= Len(plan)
    /\ write("c2", 8, CharToU32(plan[Len(log)]))
    /\ log' = Append(log, [pos |-> bs["c2"].mPos, bits |-> 8, data |-> plan[Len(log)]])
    /\ UNCHANGED <<pc, plan, got>>

BulkRead ==
    /\ pc = "rseek"
    /\ read_bytes("c1", Len(plan))
    /\ got' = last'.ret
    /\ pc' = "rdone"
    /\ UNCHANGED <<plan, log>>

NextBytes == BulkSeek \/ BulkWrite \/ RefSeek \/ RefWrite \/ BulkRead

SpecBytes == InitBytes /\ [][NextBytes]_vars

\* C5: at a byte-aligned position, with the payload inside the capacity,
\* write_bytes leaves the words as the same bytes written with write(8, .).
ByteAlignmentEquivalence ==
    (pc = "ref" /\ Len(log) = Len(plan) + 1 /\ ~halted /\ ~ub
        /\ log[1].pos % 8 = 0
        /\ log[1].pos + log[1].bits <= bs["c1"].mBufferBits)
    => mem["a"] = mem["b"]

\* C6: write_bytes and read_bytes advance the cursor by 8 * length.
BulkAdvancesCursor ==
    (last.op \in {"write_bytes", "read_bytes"} /\ ~halted /\ ~ub)
    => bs[last.c].mPos = last.pre.mPos + 8 * last.bits

----------------------------------------------------------------------------
(* Round trip in the revision of part_001, which defines no seek: the       *)
(* Writer reaches position plan.p with writes of up to 32 bits and writes   *)
(* one value there; the Reader reaches plan.p with reads and reads it.      *)
(* read() is the same text in both revisions.                               *)

Min(a, b) == IF a < b THEN a ELSE b

Init001 ==
    /\ bs = [c \in Cursors |-> bitstream_buffer("a", BindSize,
                                 IF c = "c1" THEN "io_writer" ELSE "io_reader")]
    /\ \E f \in Fills : mem = [a \in Arrays |-> f]
    /\ heap = NoHeap
    /\ charSigned = TRUE
    /\ halted = FALSE
    /\ ub = FALSE
    /\ last = NoCall
    /\ pc = "wpos"
    /\ \E p \in 1 .. BindSize * 8 - 1 : plan = [p |-> p]
    /\ log = << >>
    /\ got = << >>

WriterAdvance001 ==
    /\ pc = "wpos"
    /\ bs["c1"].mPos < plan.p
    /\ write_001("c1", Min(32, plan.p - bs["c1"].mPos), {})
    /\ UNCHANGED <<pc, plan, log, got>>

WriterWrite001 ==
    /\ pc = "wpos"
    /\ bs["c1"].mPos = plan.p
    /\ \E n \in Widths : \E v \in Narrow(n) :
          /\ write_001("c1", n, v)
          /\ log' = <<[pos |-> bs["c1"].mPos, bits |-> n, data |-> v]>>
    /\ pc' = "rpos"
    /\ UNCHANGED <<plan, got>>

ReaderAdvance001 ==
    /\ pc = "rpos"
    /\ bs["c2"].mPos < plan.p
    /\ read("c2", Min(32, plan.p - bs["c2"].mPos))
    /\ UNCHANGED <<pc, plan, log, got>>

ReaderRead001 ==
    /\ pc = "rpos"
    /\ bs["c2"].mPos = plan.p
    /\ read("c2", log[1].bits)
    /\ got' = <<last'.ret>>
    /\ pc' = "done"
    /\ UNCHANGED <<plan, log>>

Next001 == WriterAdvance001 \/ WriterWrite001 \/ ReaderAdvance001 \/ ReaderRead001

Spec001 == Init001 /\ [][Next001]_vars

\* C3: in the revision of part_001, a value below 2^n written with n bits at
\* a position p with p % 32 + n > 32 is what read(n) at p returns.
BoundaryRoundTrip001 ==
    (pc = "done" /\ ~halted /\ ~ub
        /\ log[1].data \subseteq masks(log[1].bits)
        /\ (log[1].pos % bitSize) + log[1].bits > bitSize)
    => got[1] = log[1].data

----------------------------------------------------------------------------
(* Construction and the one-shot setters.  pc[c] says whether object c has  *)
(* been constructed.                                                        *)

Modes == {"io_unset", "io_reader", "io_writer"}

\* Sizes passed to the constructors and to set_buffer: 2^29 is the first
\* size whose size * 8 does not fit in 32 bits.
Sizes == {0, 4, 5, 8, 2^29, 2^29 + 5}

Unused(h) == ~heap[h].live /\ heap[h].frees = 0

\* The array the next new word_t[n] returns
Fresh(h) ==
    \E i \in DOMAIN HeapSeq :
        /\ h = HeapSeq[i]
        /\ Unused(h)
        /\ \A j \in 1 .. i - 1 : ~Unused(HeapSeq[j])

\* new word_t[n]
New(h, n) == heap' = [heap EXCEPT ![h] = [words |-> n, live |-> TRUE, frees |-> 0]]

\* delete[] mBuffer, for an object that owns its buffer.  delete[] of a null
\* pointer does nothing; delete[] of an array released before, or of an array
\* of the caller that no new[] returned, is undefined.
Delete(s) ==
    IF s.mOwnsBuffer /\ s.mBuffer # "null"
    THEN /\ heap' = [heap EXCEPT ![s.mBuffer].live = FALSE,
                                 ![s.mBuffer].frees = @ + 1]
         /\ ub' = (ub \/ ~heap[s.mBuffer].live \/ s.mBuffer \in Arrays)
    ELSE UNCHANGED <<heap, ub>>

InitCtor ==
    /\ bs = [c \in Cursors |-> bitstream_empty]
    /\ mem = NoCall.mem0
    /\ heap = NoHeap
    /\ charSigned = TRUE
    /\ halted = FALSE
    /\ ub = FALSE
    /\ last = NoCall
    /\ pc = [c \in Cursors |-> "unborn"]
    /\ plan = << >>
    /\ log = << >>
    /\ got = << >>

Born(c) == pc' = [pc EXCEPT ![c] = "live"]

CtorEmpty(c) ==
    /\ ~halted /\ ~ub /\ pc[c] = "unborn"
    /\ bs' = [bs EXCEPT ![c] = bitstream_empty]
    /\ last' = CallNamed("ctor_empty", c, 0, "")
    /\ Born(c)
    /\ UNCHANGED <<mem, heap, charSigned, halted, ub, plan, log, got>>

CtorBuffer(c) ==
    /\ ~halted /\ ~ub /\ pc[c] = "unborn"
    /\ \E buffer \in Arrays, size \in Sizes, m \in Modes :
          /\ bs' = [bs EXCEPT ![c] = bitstream_buffer(buffer, size, m)]
          /\ last' = CallNamed("ctor_buffer", c, size, buffer)
    /\ Born(c)
    /\ UNCHANGED <<mem, heap, charSigned, halted, ub, plan, log, got>>

CtorBufferFirst(c) ==
    /\ ~halted /\ ~ub /\ pc[c] = "unborn"
    /\ \E buffer \in Arrays, size \in Sizes, m \in Modes :
          /\ bs' = [bs EXCEPT ![c] = bitstream_buffer_first(buffer, size, m)]
          /\ last' = CallNamed("ctor_buffer_first", c, size, buffer)
    /\ Born(c)
    /\ UNCHANGED <<mem, heap, charSigned, halted, ub, plan, log, got>>

CtorString(c) ==
    /\ ~halted /\ ~ub /\ pc[c] = "unborn"
    /\ \E n \in Sizes, h \in HeapIds :
          /\ Fresh(h)
          /\ bs' = [bs EXCEPT ![c] = bitstream_string(n, h)]
          /\ IF verify_size(n) THEN New(h, StringWords(n)) ELSE heap' = heap
          /\ last' = CallNamed("ctor_string", c, n, "")
    /\ Born(c)
    /\ UNCHANGED <<mem, charSigned, halted, ub, plan, log, got>>

CtorSize(c) ==
    /\ ~halted /\ ~ub /\ pc[c] = "unborn"
    /\ \E size \in Sizes, h \in HeapIds :
          /\ Fresh(h)
          /\ bs' = [bs EXCEPT ![c] = bitstream_size(size, h)]
          /\ New(h, size)
          /\ last' = CallNamed("ctor_size", c, size, "")
    /\ Born(c)
    /\ UNCHANGED <<mem, charSigned, halted, ub, plan, log, got>>

set_mode(c) ==
    /\ ~halted /\ ~ub /\ pc[c] = "live"
    /\ \E io_mode \in Modes :
          /\ bs' = [bs EXCEPT ![c] = set_mode_call(bs[c], io_mode)]
          /\ last' = CallNamed("set_mode", c, 0, io_mode)
    /\ UNCHANGED <<mem, heap, charSigned, halted, ub, pc, plan, log, got>>

set_buffer(c) ==
    /\ ~halted /\ ~ub /\ pc[c] = "live"
    /\ \E buffer \in Arrays \cup {"null"}, size \in Sizes :
          /\ bs' = [bs EXCEPT ![c] = set_buffer_call(bs[c], buffer, size)]
          /\ last' = CallNamed("set_buffer", c, size, buffer)
    /\ UNCHANGED <<mem, heap, charSigned, halted, ub, pc, plan, log, got>>

reset(c) ==
    /\ ~halted /\ ~ub /\ pc[c] = "live"
    /\ Delete(bs[c])
    /\ bs' = [bs EXCEPT ![c] = bitstream_empty]
    /\ last' = CallNamed("reset", c, 0, "")
    /\ UNCHANGED <<mem, charSigned, halted, pc, plan, log, got>>

NextCtor ==
    \E c \in {"c1"} :
        \/ CtorEmpty(c)
        \/ CtorBuffer(c)
        \/ CtorBufferFirst(c)
        \/ CtorString(c)
        \/ CtorSize(c)
        \/ set_mode(c)
        \/ set_buffer(c)
        \/ reset(c)

SpecCtor == InitCtor /\ [][NextCtor]_vars

\* C8: the first set_mode(Reader or Writer) on an object with no mode sets
\* the mode, the first set_buffer on an object with no array binds the array,
\* and neither touches the status; every later set_mode or set_buffer changes
\* nothing but the status, which becomes AlreadyDefined.
OneShotSetters ==
    LET s == bs[last.c]
        pre == last.pre
    IN  /\ (last.op = "set_mode" /\ pre.mMode = "io_unset"
              /\ last.name \in {"io_reader", "io_writer"})
           => s = [pre EXCEPT !.mMode = last.name]
        /\ (last.op = "set_mode" /\ pre.mMode # "io_unset")
           => s = [pre EXCEPT !.mError = "redef"]
        /\ (last.op = "set_buffer" /\ pre.mBuffer = "null" /\ last.name # "null")
           => /\ s.mBuffer = last.name
              /\ s.mError = pre.mError /\ s.mMode = pre.mMode
              /\ s.mPos = 0
        /\ (last.op = "set_buffer" /\ pre.mBuffer # "null")
           => s = [pre EXCEPT !.mError = "redef"]

\* A second set_buffer on an object that was empty, got a mode and an array:
\* the array stays, the status is AlreadyDefined.
OneShotSettersReached ==
    /\ last.op = "set_buffer"
    /\ last.pre.mBuffer = "a" /\ last.pre.mError = "none"
    /\ last.pre.mMode = "io_writer" /\ ~last.pre.mOwnsBuffer
    /\ last.name = "b"
    /\ bs["c1"].mBuffer = "a" /\ bs["c1"].mError = "redef"
    /\ bs["c1"].mMode = "io_writer"

\* C9: a constructor given a size whose size * 8 does not fit in 32 bits
\* (size >= 2^29) leaves status SizeOverflow, capacity 0 and valid() false.
CapacityRejection ==
    (last.op \in {"ctor_buffer", "ctor_string", "ctor_size"} /\ last.bits >= 2^29)
    => /\ bs[last.c].mError = "size"
       /\ bs[last.c].mBufferBits = 0
       /\ ~valid(bs[last.c])

\* C10: after set_buffer(storage, size_in_words) the capacity is
\* size_in_words * 32; after an allocating constructor that succeeds it is
\* 32 times the number of words allocated, and the string's bits are all
\* below the capacity.
CapacityFormula ==
    LET s == bs[last.c]
    IN  /\ (last.op = "set_buffer" /\ last.pre.mBuffer = "null" /\ last.name # "null"
              /\ last.bits < 2^26)
           => s.mBufferBits = last.bits * bitSize
        /\ (last.op \in {"ctor_string", "ctor_size"} /\ s.mError = "none"
              /\ heap[s.mBuffer].words < 2^26)
           => s.mBufferBits = heap[s.mBuffer].words * bitSize
        /\ (last.op = "ctor_string" /\ s.mError = "none" /\ last.bits < 2^28)
           => last.bits * 8 <= s.mBufferBits

\* C13: a size s >= 1 whose s * 8 + 1 fits in 32 bits (s < 2^29) is accepted:
\* the constructor over an array of the caller with mode Reader or Writer and
\* the allocating Writer constructor leave status Ok, valid() true and
\* size() = s * 8; verify_size, in both revisions, is true for those sizes
\* and for no other.
SmallSizesAccepted ==
    LET s == bs[last.c]
        n == last.bits
    IN  (last.op \in {"ctor_buffer", "ctor_buffer_first", "ctor_size"} /\ n >= 1)
        => /\ (n < 2^29 /\ s.mMode # "io_unset")
              => /\ s.mError = "none"
                 /\ valid(s)
                 /\ s.mBufferBits = n * 8
           /\ verify_size(n) <=> (n < 2^29)
           /\ verify_size_first(n) <=> (n < 2^29)

----------------------------------------------------------------------------
(* Calls outside the contract.  c1 is an object over array a, constructed   *)
(* with any mode; the caller may call set_mode (which can leave the status  *)
(* AlreadyDefined), may seek once, and then makes one transfer call, with   *)
(* any width from 0 to 33.                                                  *)

EdgeWidths == {0, 1, 8, 32, 33}
EdgePositions == {0, 5, 8, 32, 63}
EdgeData == { {}, {0}, Bits32 }

InitEdge ==
    /\ \E m \in Modes :
          bs = [c \in Cursors |-> IF c = "c1" THEN bitstream_buffer("a", BindSize, m)
                                  ELSE bitstream_empty]
    /\ \E f \in Fills : mem = [a \in Arrays |-> f]
    /\ heap = NoHeap
    /\ charSigned = TRUE
    /\ halted = FALSE
    /\ ub = FALSE
    /\ last = NoCall
    /\ pc = [c \in Cursors |-> "live"]
    /\ plan = << >>
    /\ log = << >>
    /\ got = << >>

EdgeSetMode ==
    /\ log = << >> /\ plan = << >>
    /\ set_mode("c1")

EdgeSeek ==
    /\ log = << >> /\ plan = << >>
    /\ \E p \in EdgePositions : seek("c1", p) /\ plan' = <<p>>
    /\ UNCHANGED <<pc, log, got>>

EdgeWrite ==
    /\ log = << >>
    /\ \E n \in EdgeWidths, v \in EdgeData : write("c1", n, v)
    /\ log' = <<"write">>
    /\ UNCHANGED <<pc, plan, got>>

EdgeRead ==
    /\ log = << >>
    /\ \E n \in EdgeWidths : read("c1", n)
    /\ log' = <<"read">>
    /\ got' = <<last'.ret>>
    /\ UNCHANGED <<pc, plan>>

EdgeWriteBytes ==
    /\ log = << >>
    /\ \E d \in Payloads : write_bytes("c1", d, Len(d))
    /\ log' = <<"write_bytes">>
    /\ UNCHANGED <<pc, plan, got>>

EdgeReadBytes ==
    /\ log = << >>
    /\ \E n \in 1 .. MaxBytes : read_bytes("c1", n)
    /\ log' = <<"read_bytes">>
    /\ got' = last'.ret
    /\ UNCHANGED <<pc, plan>>

NextEdge ==
    \/ EdgeSetMode
    \/ EdgeSeek
    \/ EdgeWrite
    \/ EdgeRead
    \/ EdgeWriteBytes
    \/ EdgeReadBytes

SpecEdge == InitEdge /\ [][NextEdge]_vars

Untouched == bs[last.c] = last.pre /\ mem = last.mem0

\* C11: write and write_bytes on an object that is not a Writer, read and
\* read_bytes on an object that is not a Reader, and write or read of more
\* than 32 bits abort the program before the words or the cursor change; no
\* word changes through an object that is not a Writer with status Ok.
ContractViolationsHalt ==
    /\ (last.op \in {"write", "write_bytes"} /\ last.pre.mMode # "io_writer")
       => (halted /\ Untouched)
    /\ (last.op \in {"read", "read_bytes"} /\ last.pre.mMode # "io_reader")
       => (halted /\ Untouched)
    /\ (last.op \in {"write", "read"} /\ last.bits > 32)
       => (halted /\ Untouched)
    /\ (last.op \in {"write", "write_bytes", "read", "read_bytes"} /\ mem # last.mem0)
       => (last.pre.mMode = "io_writer" /\ last.pre.mError = "none")

\* C14: write and read of 0..32 bits that end within the capacity touch no
\* word outside the array and no mask outside the table; write(0, v) changes
\* no word and no cursor, read(0) returns 0 and leaves the cursor.
InBoundsAccess ==
    (last.op \in {"write", "read"} /\ ~halted
        /\ last.bits \in 0 .. 32
        /\ last.pre.mPos + last.bits <= last.pre.mBufferBits)
    => /\ ~ub
       /\ (last.bits = 0) => (Untouched /\ last.ret = {})

----------------------------------------------------------------------------
(* Ownership of the arrays.  Two objects are constructed, in any of the     *)
(* four forms or by a move from the other one, bound, reset, move-assigned  *)
(* and destroyed; heap counts the delete[] of every array.                  *)

\* The sizes the caller passes here: one that verify_size rejects and one it
\* accepts.
OwnSizes == {4, 5}

\* bitstream(bitstream&&) = default: every member of c is initialised from
\* the member of d, and d keeps its members.
bitstream_move(c, d) ==
    /\ ~halted /\ ~ub /\ pc[c] = "unborn" /\ pc[d] = "live"
    /\ bs' = [bs EXCEPT ![c] = bs[d]]
    /\ last' = CallNamed("ctor_move", c, 0, d)
    /\ Born(c)
    /\ UNCHANGED <<mem, heap, charSigned, halted, ub, plan, log, got>>

\* bitstream& operator=(bitstream&&) = default: every member of c is assigned
\* from the member of d; the array c pointed to is not released.
move_assign(c, d) ==
    /\ ~halted /\ ~ub /\ pc[c] = "live" /\ pc[d] = "live"
    /\ bs' = [bs EXCEPT ![c] = bs[d]]
    /\ last' = CallNamed("move_assign", c, 0, d)
    /\ UNCHANGED <<mem, heap, charSigned, halted, ub, pc, plan, log, got>>

\* ~bitstream()
bitstream_destructor(c) ==
    /\ ~halted /\ ~ub /\ pc[c] = "live"
    /\ Delete(bs[c])
    /\ pc' = [pc EXCEPT ![c] = "dead"]
    /\ last' = CallNamed("dtor", c, 0, "")
    /\ UNCHANGED <<bs, mem, charSigned, halted, plan, log, got>>

\* The constructors and set_buffer, called with a size of OwnSizes, array a
\* and mode Reader
OwnCtorBuffer(c) ==
    /\ CtorBuffer(c)
    /\ last'.bits \in OwnSizes /\ last'.name = "a" /\ bs'[c].mMode = "io_reader"

OwnCtorString(c) == CtorString(c) /\ last'.bits \in OwnSizes

OwnCtorSize(c) == CtorSize(c) /\ last'.bits \in OwnSizes

OwnSetBuffer(c) == set_buffer(c) /\ last'.bits \in OwnSizes /\ last'.name = "a"

NextOwn ==
    \E c \in Cursors : \E d \in Cursors \ {c} :
        \/ CtorEmpty(c)
        \/ OwnCtorBuffer(c)
        \/ OwnCtorString(c)
        \/ OwnCtorSize(c)
        \/ bitstream_move(c, d)
        \/ move_assign(c, d)
        \/ OwnSetBuffer(c)
        \/ reset(c)
        \/ bitstream_destructor(c)

SpecOwn == InitCtor /\ [][NextOwn]_vars

\* C12: every array an object allocated is released exactly once, never
\* twice, and released by the time no object is alive; an array of the
\* caller is never released.
ExclusiveOwnership ==
    /\ \A h \in HeapIds : heap[h].frees <= 1
    /\ (\A c \in Cursors : pc[c] # "live")
       => \A h \in HeapIds : ~Unused(h) => heap[h].frees = 1
    /\ \A a \in Arrays : heap[a].frees = 0

====
